---- MODULE Spec2Model ----
(***************************************************************************)
(* VerdeGO: token authentication and session refresh.                      *)
(*                                                                         *)
(* Server side (backend-express): JwtService, the authenticateToken gate,  *)
(* AuthService.login / refresh and the change-password handler, as pure    *)
(* operators of the presented credential and the server clock; the express *)
(* router with the routes behind the gate (GateSpec), the /api/auth routes *)
(* on the users table (AuthSpec) and the startup of the process, from its  *)
(* environment to app.listen (BootSpec).                                   *)
(*                                                                         *)
(* Client side (frontend): lib/api.ts (fetchJSON, refreshAccessToken, the  *)
(* module-level refreshPromise) and AuthContext (React state, the          *)
(* state-to-localStorage effect, login, logout).  The browser is a single  *)
(* event loop: one action is one task together with the microtasks it      *)
(* releases, so the completion of the refresh promise and the continuation *)
(* of every fetchJSON awaiting it are one step.  Spec follows the browser  *)
(* from a store the application wrote, MountSpec from any store the page   *)
(* may be mounted on, LiveSpec adds the fairness of the network.           *)
(***************************************************************************)
EXTENDS Integers, Sequences, FiniteSets, TLC

(* ------------------------------ bounds -------------------------------- *)

\* number of fetchJSON calls followed
NCalls == 2
\* last value of the clock
MaxTime == 2
\* number of POST /api/auth/refresh calls followed
MaxRefresh == 2
\* lifetime of an access credential, in clock ticks (JWT_ACCESS_EXP_MIN)
AccessTTL == 1
\* lifetime of a refresh credential, in clock ticks (JWT_REFRESH_EXP_DAYS)
RefreshTTL == 2

Calls == 1..NCalls
Time == 0..MaxTime

(* ---------------------------- credentials ----------------------------- *)

\* the identity of the browser's user, and a second identity for the gate
ClientUser == "a@b.com"
Subjects == {"a@b.com", "c@d.com"}

\* localStorage.getItem(...) === null
Null == [sub |-> "", iat |-> 0, exp |-> 0, sig |-> "none"]

\* jwt.sign({email}, secret, {expiresIn}): the string is a function of the
\* subject, the issue time and the expiry; nothing in it tells an access
\* credential from a refresh credential
Sign(email, iat, ttl) == [sub |-> email, iat |-> iat, exp |-> iat + ttl, sig |-> "ok"]

\* a string that is no credential of this server
Garbage == [sub |-> "", iat |-> 0, exp |-> 0, sig |-> "bad"]

generateAccessToken(email, t) == Sign(email, t, AccessTTL)

generateRefreshToken(email, t) == Sign(email, t, RefreshTTL)

\* mutation: a credential still verifies at the instant it expires
JwtVerifiesInclusive(token, t) == token.sig = "ok" /\ t <= token.exp

\* jwt.verify: the signature checks and the clock is before exp
JwtVerifies(token, t) == token.sig = "ok" /\ t < token.exp

validateToken(token, t) == JwtVerifies(token, t)

\* getEmailFromToken: the subject, or a throw
getEmailFromToken(token, t) ==
    IF JwtVerifies(token, t)
    THEN [thrown |-> FALSE, email |-> token.sub]
    ELSE [thrown |-> TRUE, email |-> ""]

(* ------------------------------ server -------------------------------- *)

\* the users table: accounts are created by register and never deleted
RegisteredUsers == {ClientUser}

NoData == [accessToken |-> Null, refreshToken |-> Null, email |-> ""]

\* an HTTP response: status, the message of an error body, the AuthResponse
Response(status, message, data) == [status |-> status, message |-> message, data |-> data]

\* no response received yet
NoResponse == Response(0, "", NoData)

\* errorHandler: the status of a thrown error, by its class
errorHandler(err) ==
    CASE err.name = "ValidationError" -> Response(400, "Validation Failed", NoData)
      [] err.name = "DuplicateEmailError" -> Response(409, err.message, NoData)
      [] err.name = "UnauthorizedError" -> Response(401, err.message, NoData)
      [] err.name = "NotFoundError" -> Response(404, err.message, NoData)
      [] err.name = "JsonWebTokenError" -> Response(401, "Invalid token", NoData)
      [] err.name = "TokenExpiredError" -> Response(401, "Token expired", NoData)
      [] OTHER -> Response(500, "An unexpected error occurred", NoData)

UnauthorizedError(message) == [name |-> "UnauthorizedError", message |-> message]

NotFoundError(message) == [name |-> "NotFoundError", message |-> message]

\* the Authorization header: absent, one word ("bare"), or a scheme word
\* followed by a credential
NoHeader == [scheme |-> "absent", tok |-> Null]

Bearer(token) == [scheme |-> "Bearer", tok |-> token]

\* authHeader && authHeader.split(' ')[1]
HeaderToken(h) == IF h.scheme \in {"absent", "bare"} THEN Null ELSE h.tok

\* the gate's message for a credential that does not verify
GateRejected == "Invalid or expired token"

\* the gate's verdict: next() with req.user set, or a thrown error
GatePass(email) == [next |-> TRUE, user |-> email, err |-> UnauthorizedError("")]

GateThrow(message) == [next |-> FALSE, user |-> "", err |-> UnauthorizedError(message)]

\* mutation: the gate decodes the subject without verifying the credential
authenticateTokenUnverified(h, t1, t2) ==
    LET token == HeaderToken(h) IN
    IF token = Null THEN GateThrow("Authentication required")
    ELSE GatePass(token.sub)

\* authenticateToken; t1 and t2 are the clock at validateToken and at
\* getEmailFromToken
authenticateToken(h, t1, t2) ==
    LET token == HeaderToken(h) IN
    IF token = Null THEN GateThrow("Authentication required")
    ELSE IF ~validateToken(token, t1) THEN GateThrow(GateRejected)
    ELSE LET e == getEmailFromToken(token, t2) IN
         IF e.thrown THEN GateThrow("Invalid token") ELSE GatePass(e.email)

\* mutation: an unknown e-mail is reported as such
AuthLoginTellsUnknown(email, found, pwOk, t) ==
    IF ~found THEN errorHandler(NotFoundError("User not found"))
    ELSE IF ~pwOk THEN errorHandler(UnauthorizedError("Invalid email or password"))
    ELSE Response(200, "", [accessToken |-> generateAccessToken(email, t),
                            refreshToken |-> generateRefreshToken(email, t),
                            email |-> email])

\* AuthService.login; found: the user exists, pwOk: bcrypt.compare accepts
AuthLogin(email, found, pwOk, t) ==
    IF ~found THEN errorHandler(UnauthorizedError("Invalid email or password"))
    ELSE IF ~pwOk THEN errorHandler(UnauthorizedError("Invalid email or password"))
    ELSE Response(200, "", [accessToken |-> generateAccessToken(email, t),
                            refreshToken |-> generateRefreshToken(email, t),
                            email |-> email])

\* AuthService.refresh on the body's refreshToken; t1 and t2 are the clock at
\* validateToken and at getEmailFromToken and the issue of the new pair,
\* registered the e-mails of the users table
AuthRefreshAt(refreshToken, t1, t2, registered) ==
    IF ~validateToken(refreshToken, t1)
    THEN errorHandler(UnauthorizedError("Invalid or expired refresh token"))
    ELSE LET e == getEmailFromToken(refreshToken, t2) IN
         IF e.thrown THEN errorHandler([name |-> "Error", message |-> "Invalid token"])
         ELSE IF e.email \notin registered
         THEN errorHandler(NotFoundError("User not found"))
         ELSE Response(200, "", [accessToken |-> generateAccessToken(e.email, t2),
                                 refreshToken |-> generateRefreshToken(e.email, t2),
                                 email |-> e.email])

\* the refresh endpoint as the browser sees it: one request, one answer
AuthRefresh(refreshToken, t) == AuthRefreshAt(refreshToken, t, t, RegisteredUsers)

\* POST /api/users/me/password behind the gate; pwOk: the current password
\* matches
ChangePassword(email, pwOk) ==
    IF email \notin RegisteredUsers THEN errorHandler(NotFoundError("User not found"))
    ELSE IF ~pwOk THEN errorHandler(UnauthorizedError("Current password is incorrect"))
    ELSE Response(204, "", NoData)

\* the protected router: the gate, then the route's handler.  handlerOk is
\* the outcome of a data handler (commutes, goals, emissions): 200, or an
\* error of its own that is no 401
ProtectedRoute(url, h, pwOk, handlerOk, t) ==
    LET g == authenticateToken(h, t, t) IN
    IF ~g.next THEN errorHandler(g.err)
    ELSE IF url = "password" THEN ChangePassword(g.user, pwOk)
    ELSE IF handlerOk THEN Response(200, "", NoData)
    ELSE errorHandler(NotFoundError("Not found"))

\* the server on one request of the browser
Serve(url, h, pwOk, handlerOk, t) ==
    IF url = "login" THEN AuthLogin(ClientUser, ClientUser \in RegisteredUsers, pwOk, t)
    ELSE ProtectedRoute(url, h, pwOk, handlerOk, t)

(* ------------------------------ startup ------------------------------- *)

\* 'change-me-dev-secret-at-least-256-bits'.length
DefaultSecretLen == 38

\* jwtConfig.secret.length < 32
MinSecretLen == 32

\* process.env.JWT_ACCESS_EXP_MIN || '30'
DefaultAccessMin == 30

\* process.env.JWT_REFRESH_EXP_DAYS || '7'
DefaultRefreshDays == 7

\* expiresIn `${n}m` against `${n}d`: a day is 1440 minutes
MinutesPerDay == 1440

\* a variable of the environment: set to a value (for JWT_SECRET, the length
\* of the string), or not set
NoVar == [set |-> FALSE, val |-> 0]

Var(v) == [set |-> TRUE, val |-> v]

EnvKeys == {"JWT_SECRET", "JWT_ACCESS_EXP_MIN", "JWT_REFRESH_EXP_DAYS"}

NoEnv == [k \in EnvKeys |-> NoVar]

\* the settings an operator may give, in the environment or in the .env file
Settings ==
    {[k \in EnvKeys |-> CASE k = "JWT_SECRET" -> sec
                          [] k = "JWT_ACCESS_EXP_MIN" -> acc
                          [] OTHER -> ref] :
       sec \in {NoVar, Var(16), Var(31), Var(32)},
       acc \in {NoVar, Var(30), Var(1440), Var(20000)},
       ref \in {NoVar, Var(1), Var(7)}}

\* dotenv: a key of the file is put into process.env unless it is set there
LoadEnvFile(env, file) == [k \in EnvKeys |-> IF env[k].set THEN env[k] ELSE file[k]]

\* process.env.X || fallback
OrDefault(v, fallback) == IF v.set THEN v.val ELSE fallback

\* the setting in force for a key: the environment's, else the file's
Configured(b, k) == LoadEnvFile(b.osEnv, b.file)[k]

\* the server process.  osEnv: the environment the process was started in;
\* file: the .env file; env: process.env; clientLoadsEnv: whether the
\* database client reads the .env file when it is constructed (the source
\* does not say); secretLen, accessMin, refreshDays: jwtConfig; guarded: the
\* uncaughtException handler is registered
Process(osEnv, file, clientLoadsEnv) ==
    [phase |-> "start", osEnv |-> osEnv, file |-> file, env |-> osEnv,
     clientLoadsEnv |-> clientLoadsEnv, secretLen |-> 0, accessMin |-> 0,
     refreshDays |-> 0, guarded |-> FALSE]

\* the server of the other specifications: started with nothing set, listening
Booted ==
    [Process(NoEnv, NoEnv, FALSE) EXCEPT
       !.phase = "listening", !.secretLen = DefaultSecretLen,
       !.accessMin = DefaultAccessMin, !.refreshDays = DefaultRefreshDays,
       !.guarded = TRUE]

\* config/jwt: jwtConfig read from process.env
readJwtConfig(b) ==
    [b EXCEPT !.phase = "imported",
              !.secretLen = OrDefault(b.env["JWT_SECRET"], DefaultSecretLen),
              !.accessMin = OrDefault(b.env["JWT_ACCESS_EXP_MIN"], DefaultAccessMin),
              !.refreshDays = OrDefault(b.env["JWT_REFRESH_EXP_DAYS"], DefaultRefreshDays)]

\* config/jwt, evaluated when it is imported: jwtConfig from process.env,
\* then the throw on a short secret, which no handler catches
jwtConfig(b) ==
    LET c == readJwtConfig(b) IN
    IF c.secretLen < MinSecretLen THEN [c EXCEPT !.phase = "crashed"] ELSE c

(* ------------------------------ client -------------------------------- *)

VARIABLES
    now,            \* the clock shared by server and browser
    ls,             \* localStorage: accessToken, refreshToken, email
    state,          \* AuthProvider's React state
    effectPending,  \* the [state] effect has yet to run for the current state
    refreshPromise, \* lib/api.ts refreshPromise: 0 is null, else the attempt
    refreshNet,     \* POST /api/auth/refresh requests in flight
    nRefresh,       \* number of POST /api/auth/refresh requests issued so far
    lastEvent,      \* the last operation that wrote the stored pair
    lastIssued,     \* the access credential that operation stored
    trigger,        \* the header whose 401 started the last attempt
    calls,          \* the fetchJSON calls
    req,            \* the request the express app is routing
    boot,           \* the server process: its environment and its startup
    users,          \* the users table
    hs              \* the /api/auth requests being handled

vars == <<now, ls, state, effectPending, refreshPromise, refreshNet, nRefresh,
          lastEvent, lastIssued, trigger, calls, req, boot, users, hs>>

SessionExpired == "Session expired. Please log in again."

NetworkErrors == {"Timeout", "AbortError", "Failed to fetch"}

\* '' and null are both falsy to every test the code makes of a credential,
\* and both are Null here
Unauthenticated == [isAuthenticated |-> FALSE, accessToken |-> Null,
                    refreshToken |-> Null, email |-> ""]

EmptyStore == [accessToken |-> Null, refreshToken |-> Null, email |-> ""]

\* the pair a login at time 0 stored
StoredSession == [accessToken |-> generateAccessToken(ClientUser, 0),
                  refreshToken |-> generateRefreshToken(ClientUser, 0),
                  email |-> ClientUser]

\* readInitialState
readInitialState(store) ==
    IF store.accessToken = Null \/ store.email = ""
    THEN Unauthenticated
    ELSE [isAuthenticated |-> TRUE, accessToken |-> store.accessToken,
          refreshToken |-> store.refreshToken, email |-> store.email]

\* no request is being routed
NoRequest == [stage |-> "none", path |-> "", hdr |-> NoHeader, claimed |-> "",
              t1 |-> 0, user |-> "", acting |-> "", status |-> 0, message |-> ""]

IdleCall == [pc |-> "idle", url |-> "", hdr |-> NoHeader,
             isRetry |-> FALSE, resp |-> NoResponse, aborted |-> FALSE,
             err |-> "", sends |-> 0, att |-> 0, waits |-> 0]

\* number of /api/auth requests handled at the same time
NHandlers == 2

Handlers == 1..NHandlers

Passwords == {"pw1", "pw2"}

\* the e-mail column of the users table
Emails(table) == {u.email : u \in table}

\* an /api/auth request: the operation, its body (email and password, or the
\* refreshToken), the clock at validateToken, the passwordHash that
\* findByEmail returned, and the response
IdleHandler == [op |-> "none", pc |-> "idle", email |-> "", pw |-> "",
                tok |-> Null, t1 |-> 0, hash |-> "", resp |-> NoResponse]

\* the page is mounted: the refresh callback is registered and the effect
\* has run on the initial state
PageInit ==
    /\ now = 0
    /\ ls \in {EmptyStore, StoredSession}
    /\ state = readInitialState(ls)
    /\ effectPending = FALSE
    /\ refreshPromise = 0
    /\ refreshNet = {}
    /\ nRefresh = 0
    /\ lastEvent = "init"
    /\ lastIssued = ls.accessToken
    /\ trigger = NoHeader
    /\ calls = [i \in Calls |-> IdleCall]
    /\ req = NoRequest

\* the server listens, the browser's user is registered and no /api/auth
\* request is being handled
ServerInit ==
    /\ boot = Booted
    /\ users = {[email |-> ClientUser, pw |-> "pw1"]}
    /\ hs = [k \in Handlers |-> IdleHandler]

Init == PageInit /\ ServerInit

\* res.ok
Ok(status) == status >= 200 /\ status <= 299

\* mutation: the auth-endpoint test is missing
IsAuthUrlNever(url) == FALSE

\* url.includes('/api/auth/')
IsAuthUrl(url) == url = "login"

\* mutation: a rejected fetch is handled like a 401 response
DispositionThrowAs401(url, isRetry, thrown, status) ==
    IF (thrown \/ status = 401) /\ ~isRetry
    THEN IF url = "login" THEN "throw_http" ELSE "refresh"
    ELSE IF thrown THEN "throw_network"
    ELSE IF ~(status >= 200 /\ status <= 299) THEN "throw_http"
    ELSE "return"

\* what fetchJSON does with the outcome of its fetch: a thrown fetch leaves
\* through finally; a 401 on a first try goes to the refresh path unless the
\* url is an auth endpoint; any other non-ok status throws its message
Disposition(url, isRetry, thrown, status) ==
    IF thrown THEN "throw_network"
    ELSE IF status = 401 /\ ~isRetry
         THEN IF IsAuthUrl(url) THEN "throw_http" ELSE "refresh"
    ELSE IF ~Ok(status) THEN "throw_http"
    ELSE "return"

\* mutation: the pending promise is not consulted
RefreshDecisionNoJoin(promise, refreshToken) ==
    IF refreshToken = Null THEN "none" ELSE "start"

\* mutation: an attempt is started without a stored refresh credential
RefreshDecisionAlwaysStart(promise, refreshToken) ==
    IF promise # 0 THEN "join" ELSE "start"

\* refreshAccessToken before its network call: join the pending promise,
\* give up without a refresh credential, or start an attempt
RefreshDecision(promise, refreshToken) ==
    IF promise # 0 THEN "join"
    ELSE IF refreshToken = Null THEN "none"
    ELSE "start"

\* mutation: the callback ignores an empty pair
onTokenRefreshKeepsState(tokens) ==
    IF tokens.accessToken # Null /\ tokens.email # ""
    THEN [isAuthenticated |-> TRUE, accessToken |-> tokens.accessToken,
          refreshToken |-> tokens.refreshToken, email |-> tokens.email]
    ELSE state

\* the callback AuthProvider registers with setTokenRefreshCallback
onTokenRefresh(tokens) ==
    IF tokens.accessToken # Null /\ tokens.email # ""
    THEN [isAuthenticated |-> TRUE, accessToken |-> tokens.accessToken,
          refreshToken |-> tokens.refreshToken, email |-> tokens.email]
    ELSE Unauthenticated

\* the [state] effect: localStorage follows the React state
SyncStore(st, store) ==
    IF st.isAuthenticated /\ st.email # ""
    THEN [accessToken |-> st.accessToken,
          refreshToken |-> IF st.refreshToken # Null THEN st.refreshToken
                           ELSE store.refreshToken,
          email |-> st.email]
    ELSE EmptyStore

\* the request headers of a first try: the stored access credential, if any
FirstHeader(store) ==
    IF store.accessToken # Null THEN Bearer(store.accessToken) ELSE NoHeader

\* a call that has left fetchJSON keeps its outcome and its counts only
Failed(c, message) ==
    [IdleCall EXCEPT !.pc = "failed", !.err = message, !.sends = c.sends,
                     !.waits = c.waits]

Returned(c) == [IdleCall EXCEPT !.pc = "ok", !.sends = c.sends, !.waits = c.waits]

\* mutation: the replay is not marked as a retry
ResumeNotMarked(c, refreshed) ==
    IF refreshed.accessToken # Null
    THEN IF c.aborted THEN Failed(c, "AbortError")
         ELSE [c EXCEPT !.pc = "sent", !.hdr = Bearer(refreshed.accessToken),
                        !.resp = NoResponse, !.sends = c.sends + 1]
    ELSE Failed(c, SessionExpired)

\* mutation: a failed attempt never settles the promise its callers await
ResumeHangs(c, refreshed) ==
    IF refreshed.accessToken # Null
    THEN IF c.aborted THEN Failed(c, "AbortError")
         ELSE [c EXCEPT !.pc = "sent", !.hdr = Bearer(refreshed.accessToken),
                        !.isRetry = TRUE, !.resp = NoResponse,
                        !.sends = c.sends + 1]
    ELSE c

\* fetchJSON after await refreshAccessToken(): replay once with the new
\* credential, or throw; a replay under an aborted signal never reaches
\* the network
Resume(c, refreshed) ==
    IF refreshed.accessToken # Null
    THEN IF c.aborted THEN Failed(c, "AbortError")
         ELSE [c EXCEPT !.pc = "sent", !.hdr = Bearer(refreshed.accessToken),
                        !.isRetry = TRUE, !.resp = NoResponse,
                        !.sends = c.sends + 1]
    ELSE Failed(c, SessionExpired)

\* mutation: a failed refresh leaves localStorage as it is
StoreAfterRefreshKeep(store, data, success) ==
    IF success
    THEN [accessToken |-> data.accessToken, refreshToken |-> data.refreshToken,
          email |-> IF data.email # "" THEN data.email ELSE store.email]
    ELSE store

\* mutation: a successful refresh leaves the write of the new pair to the
\* [state] effect
StoreAfterRefreshDeferred(store, data, success) ==
    IF success THEN store
    ELSE [store EXCEPT !.accessToken = Null, !.refreshToken = Null]

\* the refresh attempt's writes to localStorage: the new pair on success,
\* both credentials removed on a rejection or a throw
StoreAfterRefresh(store, data, success) ==
    IF success
    THEN [accessToken |-> data.accessToken, refreshToken |-> data.refreshToken,
          email |-> IF data.email # "" THEN data.email ELSE store.email]
    ELSE [store EXCEPT !.accessToken = Null, !.refreshToken = Null]

\* AuthContext.login: localStorage at once, then setState
LoginStore(store, payload) ==
    [accessToken |-> payload.accessToken,
     refreshToken |-> IF payload.refreshToken # Null THEN payload.refreshToken
                      ELSE store.refreshToken,
     email |-> payload.email]

LoginState(payload) ==
    [isAuthenticated |-> TRUE, accessToken |-> payload.accessToken,
     refreshToken |-> payload.refreshToken, email |-> payload.email]

\* mutation: the refresh fetch is tied to the signal of the calls awaiting it
RefreshAbortedByWaiter(r, i) == calls[i].att = r.id

\* the refresh fetch is given no signal: no call's abort or timeout reaches it
RefreshAbortedBy(r, i) == FALSE

NewAttempt(id, refreshToken) ==
    [id |-> id, rt |-> refreshToken, st |-> "sent", resp |-> NoResponse]

\* refreshAccessToken starts its network call and sets refreshPromise
StartAttempt ==
    /\ nRefresh < MaxRefresh
    /\ nRefresh' = nRefresh + 1
    /\ refreshPromise' = nRefresh + 1
    /\ refreshNet' = refreshNet \cup {NewAttempt(nRefresh + 1, ls.refreshToken)}

\* mutation: the caller awaits a promise that is not the attempt's
WaitingDetached(c, id) == [c EXCEPT !.pc = "waiting", !.att = 0, !.waits = c.waits + 1]

Waiting(c, id) == [c EXCEPT !.pc = "waiting", !.att = id, !.waits = c.waits + 1]

\* the rest of fetchJSON once its fetch has settled with disposition d
Settle(i, d, message) ==
    LET c == calls[i] IN
    CASE d = "refresh" ->
           LET dec == RefreshDecision(refreshPromise, ls.refreshToken) IN
           CASE dec = "join" ->
                  /\ calls' = [calls EXCEPT ![i] = Waiting(c, refreshPromise)]
                  /\ UNCHANGED <<boot, users, hs, req, now, ls, state, effectPending, refreshPromise,
                                 refreshNet, nRefresh, lastEvent, lastIssued,
                                 trigger>>
             [] dec = "none" ->
                  /\ calls' = [calls EXCEPT ![i] = Failed(c, SessionExpired)]
                  /\ UNCHANGED <<boot, users, hs, req, now, ls, state, effectPending, refreshPromise,
                                 refreshNet, nRefresh, lastEvent, lastIssued,
                                 trigger>>
             [] OTHER ->
                  /\ StartAttempt
                  /\ calls' = [calls EXCEPT ![i] = Waiting(c, nRefresh + 1)]
                  /\ trigger' = IF c.resp.message = GateRejected THEN c.hdr
                                ELSE NoHeader
                  /\ UNCHANGED <<boot, users, hs, req, now, ls, state, effectPending, lastEvent,
                                 lastIssued>>
      [] d = "return" /\ c.url = "login" ->
           \* Login.tsx: login(resp) right after await loginUser(...)
           /\ calls' = [calls EXCEPT ![i] = Returned(c)]
           /\ ls' = LoginStore(ls, c.resp.data)
           /\ state' = LoginState(c.resp.data)
           /\ effectPending' = TRUE
           /\ lastEvent' = "login"
           /\ lastIssued' = c.resp.data.accessToken
           /\ trigger' = NoHeader
           /\ UNCHANGED <<boot, users, hs, req, now, refreshPromise, refreshNet, nRefresh>>
      [] d = "return" /\ c.url # "login" ->
           /\ calls' = [calls EXCEPT ![i] = Returned(c)]
           /\ UNCHANGED <<boot, users, hs, req, now, ls, state, effectPending, refreshPromise,
                          refreshNet, nRefresh, lastEvent, lastIssued,
                          trigger>>
      [] OTHER ->
           /\ calls' = [calls EXCEPT ![i] = Failed(c, message)]
           /\ UNCHANGED <<boot, users, hs, req, now, ls, state, effectPending, refreshPromise,
                          refreshNet, nRefresh, lastEvent, lastIssued,
                          trigger>>

Urls == {"protected", "password", "login"}

\* a page calls fetchJSON(url)
Start(i, url) ==
    /\ calls[i].pc = "idle"
    /\ \A j \in Calls : j < i => calls[j].pc # "idle"
    /\ calls' = [calls EXCEPT ![i] =
                   [IdleCall EXCEPT !.pc = "sent", !.url = url,
                                    !.hdr = FirstHeader(ls), !.sends = 1]]
    /\ UNCHANGED <<boot, users, hs, req, now, ls, state, effectPending, refreshPromise, refreshNet,
                   nRefresh, lastEvent, lastIssued, trigger>>

\* the server handles the request of call i
ServerHandle(i, pwOk, handlerOk) ==
    /\ calls[i].pc = "sent"
    /\ calls' = [calls EXCEPT ![i] =
                   [calls[i] EXCEPT !.pc = "served",
                      !.resp = Serve(calls[i].url, calls[i].hdr, pwOk, handlerOk, now)]]
    /\ UNCHANGED <<boot, users, hs, req, now, ls, state, effectPending, refreshPromise, refreshNet,
                   nRefresh, lastEvent, lastIssued, trigger>>

\* the response reaches fetchJSON
Deliver(i) ==
    /\ calls[i].pc = "served"
    /\ Settle(i, Disposition(calls[i].url, calls[i].isRetry, FALSE,
                             calls[i].resp.status),
              calls[i].resp.message)

\* the fetch of call i rejects: its timer fired, its caller aborted, or the
\* network failed
NetworkFail(i, reason) ==
    /\ calls[i].pc \in {"sent", "served"}
    /\ Settle(i, Disposition(calls[i].url, calls[i].isRetry, TRUE, 0), reason)

\* the caller's signal aborts while fetchJSON awaits the refresh; the fetch
\* it would abort has already resolved
AbortWaiting(i) ==
    /\ calls[i].pc = "waiting"
    /\ ~calls[i].aborted
    /\ calls' = [calls EXCEPT ![i] = [calls[i] EXCEPT !.aborted = TRUE]]
    /\ refreshNet' = {r \in refreshNet : ~RefreshAbortedBy(r, i)}
    /\ UNCHANGED <<boot, users, hs, req, now, ls, state, effectPending, refreshPromise, nRefresh,
                   lastEvent, lastIssued, trigger>>

\* refreshToken(), the exported manual refresh, when it starts an attempt
ManualRefresh ==
    /\ RefreshDecision(refreshPromise, ls.refreshToken) = "start"
    /\ StartAttempt
    /\ trigger' = NoHeader
    /\ UNCHANGED <<boot, users, hs, req, now, ls, state, effectPending, lastEvent, lastIssued, calls>>

\* the server handles POST /api/auth/refresh
RefreshServe(r) ==
    /\ r \in refreshNet
    /\ r.st = "sent"
    /\ refreshNet' = (refreshNet \ {r}) \cup
                       {[r EXCEPT !.st = "served", !.resp = AuthRefresh(r.rt, now)]}
    /\ UNCHANGED <<boot, users, hs, req, now, ls, state, effectPending, refreshPromise, nRefresh,
                   lastEvent, lastIssued, trigger, calls, req>>

\* mutation: refreshPromise is reset on the two paths that return, not in a
\* finally, so a throw leaves it set
RefreshSettleNoFinally(r, thrown) ==
    /\ r \in refreshNet
    /\ thrown \/ r.st = "served"
    /\ LET success == ~thrown /\ Ok(r.resp.status)
           result == IF success THEN r.resp.data ELSE NoData
       IN /\ ls' = StoreAfterRefresh(ls, result, success)
          /\ state' = onTokenRefresh(result)
          /\ effectPending' = TRUE
          /\ refreshPromise' = IF thrown THEN refreshPromise ELSE 0
          /\ refreshNet' = refreshNet \ {r}
          /\ lastEvent' = IF success THEN "refresh"
                          ELSE IF thrown THEN "refresh_thrown"
                          ELSE "refresh_rejected"
          /\ lastIssued' = result.accessToken
          /\ trigger' = IF success THEN trigger ELSE NoHeader
          /\ calls' = [i \in Calls |->
                         IF calls[i].pc = "waiting" /\ calls[i].att = r.id
                         THEN Resume(calls[i], result) ELSE calls[i]]
    /\ UNCHANGED <<boot, users, hs, req, now, nRefresh>>

\* the body of the refresh promise after its fetch settles, its finally, and
\* the continuation of every fetchJSON awaiting it.  thrown: the fetch
\* rejected or response.json() threw
RefreshSettle(r, thrown) ==
    /\ r \in refreshNet
    /\ thrown \/ r.st = "served"
    /\ LET success == ~thrown /\ Ok(r.resp.status)
           result == IF success THEN r.resp.data ELSE NoData
       IN /\ ls' = StoreAfterRefresh(ls, result, success)
          /\ state' = onTokenRefresh(result)
          /\ effectPending' = TRUE
          /\ refreshPromise' = 0
          /\ refreshNet' = refreshNet \ {r}
          /\ lastEvent' = IF success THEN "refresh"
                          ELSE IF thrown THEN "refresh_thrown"
                          ELSE "refresh_rejected"
          /\ lastIssued' = result.accessToken
          /\ trigger' = IF success THEN trigger ELSE NoHeader
          /\ calls' = [i \in Calls |->
                         IF calls[i].pc = "waiting" /\ calls[i].att = r.id
                         THEN Resume(calls[i], result) ELSE calls[i]]
    /\ UNCHANGED <<boot, users, hs, req, now, nRefresh>>

\* AuthContext.logout
Logout ==
    /\ ls' = EmptyStore
    /\ state' = Unauthenticated
    /\ effectPending' = TRUE
    /\ lastEvent' = "logout"
    /\ lastIssued' = Null
    /\ trigger' = NoHeader
    /\ UNCHANGED <<boot, users, hs, req, now, refreshPromise, refreshNet, nRefresh, calls>>

\* React runs the [state] effect of the render that followed the last
\* setState; a render is taken together with the setState that caused it, so
\* the effect sees the current state
SyncEffect ==
    /\ effectPending
    /\ ls' = SyncStore(state, ls)
    /\ effectPending' = FALSE
    /\ UNCHANGED <<boot, users, hs, req, now, state, refreshPromise, refreshNet, nRefresh, lastEvent,
                   lastIssued, trigger, calls>>

Tick ==
    /\ now < MaxTime
    /\ now' = now + 1
    /\ UNCHANGED <<boot, users, hs, req, ls, state, effectPending, refreshPromise, refreshNet, nRefresh,
                   lastEvent, lastIssued, trigger, calls, req>>

Next ==
    \/ \E i \in Calls, url \in Urls : Start(i, url)
    \/ \E i \in Calls, pwOk \in BOOLEAN, handlerOk \in BOOLEAN :
         ServerHandle(i, pwOk, handlerOk)
    \/ \E i \in Calls : Deliver(i)
    \/ \E i \in Calls, reason \in NetworkErrors : NetworkFail(i, reason)
    \/ \E i \in Calls : AbortWaiting(i)
    \/ ManualRefresh
    \/ \E r \in refreshNet : RefreshServe(r)
    \/ \E r \in refreshNet, thrown \in BOOLEAN : RefreshSettle(r, thrown)
    \/ Logout
    \/ SyncEffect
    \/ Tick

Spec == Init /\ [][Next]_vars


(* ------------------------- the express router ------------------------- *)

\* app.get('/api/health') and app.use('/api/auth', authRoutes) answer before
\* the protected router is reached
PublicPaths == {"/api/health", "/api/auth/login", "/api/auth/register",
                "/api/auth/refresh"}

\* everything else under /api is mounted behind protectedRouter
ProtectedPaths == {"/api/users/me", "/api/commutes", "/api/emissions/summary",
                   "/api/recommend", "/api/goals", "/api/test"}

\* the credentials a request may present: none, a string that is no token,
\* and the access and refresh credentials this server issued
Presented ==
    {Null, Garbage} \cup
    {Sign(sub, iat, ttl) : sub \in Subjects, iat \in Time, ttl \in {AccessTTL, RefreshTTL}}

Headers ==
    {NoHeader} \cup
    {[scheme |-> sc, tok |-> tk] : sc \in {"bare", "Bearer", "Basic"}, tk \in Presented}

\* the user_email a request may carry in its query or body: none, or an
\* e-mail
Claimed == {""} \cup Subjects

\* what a protected route does once the gate has let the request through, by
\* path: the status it answers and the user whose rows it reads or writes
\* ("" for none).  /users/me and /commutes take req.user.email; GET
\* /emissions/summary validates and takes req.query.user_email;
\* goals.routes.ts holds its handlers twice, once on the validated user_email
\* of the request and once on req.user.email, and either may be the one
\* built; /recommend and /test touch no user's rows
HandlerOutcomes(path, user, claimed) ==
    LET fromToken == {[status |-> 200, acting |-> user]}
        fromClient == IF claimed = ""
                      THEN {[status |-> 400, acting |-> ""]}
                      ELSE {[status |-> 200, acting |-> claimed]}
    IN CASE path \in {"/api/users/me", "/api/commutes"} -> fromToken
         [] path = "/api/emissions/summary" -> fromClient
         [] path = "/api/goals" -> fromClient \cup fromToken
         [] OTHER -> {[status |-> 200, acting |-> ""]}

\* a request arrives
Arrive(path, h, claimed) ==
    /\ req.stage = "none"
    /\ req' = [NoRequest EXCEPT !.stage = "routing", !.path = path, !.hdr = h,
                                !.claimed = claimed]
    /\ UNCHANGED <<boot, users, hs, now, ls, state, effectPending, refreshPromise, refreshNet,
                   nRefresh, lastEvent, lastIssued, trigger, calls>>

\* a public route: its handler runs, no gate before it
RoutePublic ==
    /\ req.stage = "routing"
    /\ req.path \in PublicPaths
    /\ req' = [req EXCEPT !.stage = "handler"]
    /\ UNCHANGED <<boot, users, hs, now, ls, state, effectPending, refreshPromise, refreshNet,
                   nRefresh, lastEvent, lastIssued, trigger, calls>>

\* protectedRouter.use(authenticateToken): the gate reads the clock for
\* validateToken
GateEnter ==
    /\ req.stage = "routing"
    /\ req.path \in ProtectedPaths
    /\ req' = [req EXCEPT !.stage = "gate", !.t1 = now]
    /\ UNCHANGED <<boot, users, hs, now, ls, state, effectPending, refreshPromise, refreshNet,
                   nRefresh, lastEvent, lastIssued, trigger, calls>>

\* the gate decides: next() into the route's handler with req.user set, or
\* the thrown error answered by errorHandler
GateDecide ==
    /\ req.stage = "gate"
    /\ LET g == authenticateToken(req.hdr, req.t1, now) IN
       req' = IF g.next
              THEN [req EXCEPT !.stage = "handler", !.user = g.user]
              ELSE [req EXCEPT !.stage = "rejected",
                               !.status = errorHandler(g.err).status,
                               !.message = errorHandler(g.err).message]
    /\ UNCHANGED <<boot, users, hs, now, ls, state, effectPending, refreshPromise, refreshNet,
                   nRefresh, lastEvent, lastIssued, trigger, calls>>

\* the route behind the gate runs: validate, then the handler
RunHandler ==
    /\ req.stage = "handler"
    /\ req.path \in ProtectedPaths
    /\ \E o \in HandlerOutcomes(req.path, req.user, req.claimed) :
         req' = [req EXCEPT !.stage = "handled", !.status = o.status,
                            !.acting = o.acting]
    /\ UNCHANGED <<boot, users, hs, now, ls, state, effectPending, refreshPromise, refreshNet,
                   nRefresh, lastEvent, lastIssued, trigger, calls>>

\* the response is sent
Respond ==
    /\ \/ req.stage \in {"handled", "rejected"}
       \/ req.stage = "handler" /\ req.path \in PublicPaths
    /\ req' = NoRequest
    /\ UNCHANGED <<boot, users, hs, now, ls, state, effectPending, refreshPromise, refreshNet,
                   nRefresh, lastEvent, lastIssued, trigger, calls>>

GateNext ==
    \/ \E path \in PublicPaths \cup ProtectedPaths, h \in Headers, claimed \in Claimed :
         Arrive(path, h, claimed)
    \/ RoutePublic
    \/ GateEnter
    \/ GateDecide
    \/ RunHandler
    \/ Respond
    \/ Tick

GateSpec == Init /\ [][GateNext]_vars

(* --------------------------- server startup --------------------------- *)

\* the process is started with some environment and some .env file
BootInit ==
    /\ PageInit
    /\ boot \in {Process(e, f, c) : e \in Settings, f \in Settings, c \in BOOLEAN}
    /\ users = {[email |-> ClientUser, pw |-> "pw1"]}
    /\ hs = [k \in Handlers |-> IdleHandler]

\* server.ts imports the routes, which import config/database first: the
\* database client is constructed
ImportDatabase ==
    /\ boot.phase = "start"
    /\ boot' = [boot EXCEPT !.phase = "database",
                            !.env = IF boot.clientLoadsEnv
                                    THEN LoadEnvFile(boot.env, boot.file)
                                    ELSE boot.env]
    /\ UNCHANGED <<now, ls, state, effectPending, refreshPromise, refreshNet, nRefresh,
                   lastEvent, lastIssued, trigger, calls, req, users, hs>>

\* ... then jwt.service, which imports config/jwt
ImportJwtConfig ==
    /\ boot.phase = "database"
    /\ boot' = jwtConfig(boot)
    /\ UNCHANGED <<now, ls, state, effectPending, refreshPromise, refreshNet, nRefresh,
                   lastEvent, lastIssued, trigger, calls, req, users, hs>>

\* dotenv.config(), after the imports
DotenvConfig ==
    /\ boot.phase = "imported"
    /\ boot' = [boot EXCEPT !.phase = "configured",
                            !.env = LoadEnvFile(boot.env, boot.file)]
    /\ UNCHANGED <<now, ls, state, effectPending, refreshPromise, refreshNet, nRefresh,
                   lastEvent, lastIssued, trigger, calls, req, users, hs>>

\* process.on('uncaughtException') and process.on('unhandledRejection')
GuardProcess ==
    /\ boot.phase = "configured"
    /\ boot' = [boot EXCEPT !.phase = "guarded", !.guarded = TRUE]
    /\ UNCHANGED <<now, ls, state, effectPending, refreshPromise, refreshNet, nRefresh,
                   lastEvent, lastIssued, trigger, calls, req, users, hs>>

\* app.listen(PORT)
Listen ==
    /\ boot.phase = "guarded"
    /\ boot' = [boot EXCEPT !.phase = "listening"]
    /\ UNCHANGED <<now, ls, state, effectPending, refreshPromise, refreshNet, nRefresh,
                   lastEvent, lastIssued, trigger, calls, req, users, hs>>

BootNext ==
    \/ ImportDatabase
    \/ ImportJwtConfig
    \/ DotenvConfig
    \/ GuardProcess
    \/ Listen

BootSpec == BootInit /\ [][BootNext]_vars

(* --------------------------- /api/auth routes ------------------------- *)

DuplicateEmailError(message) == [name |-> "DuplicateEmailError", message |-> message]

\* prisma.user.create on an e-mail the table holds: the unique index rejects
\* the insert (P2002)
UniqueViolation == [name |-> "PrismaClientKnownRequestError",
                    message |-> "Unique constraint failed"]

\* the passwordHash of the row findByEmail returns
HashOf(table, email) == (CHOOSE u \in table : u.email = email).pw

\* the handler's response is written
Done(h, resp) == [h EXCEPT !.pc = "done", !.resp = resp]

\* POST /api/auth/register arrives and passes validate
RegisterArrive(k, email, pw) ==
    /\ hs[k].pc = "idle"
    /\ hs' = [hs EXCEPT ![k] = [IdleHandler EXCEPT !.op = "register", !.pc = "start",
                                                   !.email = email, !.pw = pw]]
    /\ UNCHANGED <<now, ls, state, effectPending, refreshPromise, refreshNet, nRefresh,
                   lastEvent, lastIssued, trigger, calls, req, boot, users>>

\* register: await userService.existsByEmail(request.email)
RegisterExists(k) ==
    /\ hs[k].op = "register" /\ hs[k].pc = "start"
    /\ hs' = [hs EXCEPT ![k] =
                IF hs[k].email \in Emails(users)
                THEN Done(hs[k], errorHandler(DuplicateEmailError("Email already exists")))
                ELSE [hs[k] EXCEPT !.pc = "create"]]
    /\ UNCHANGED <<now, ls, state, effectPending, refreshPromise, refreshNet, nRefresh,
                   lastEvent, lastIssued, trigger, calls, req, boot, users>>

\* register: await userService.createUser, then the pair is issued and sent
\* with 201
RegisterCreate(k) ==
    /\ hs[k].op = "register" /\ hs[k].pc = "create"
    /\ IF hs[k].email \in Emails(users)
       THEN /\ hs' = [hs EXCEPT ![k] = Done(hs[k], errorHandler(UniqueViolation))]
            /\ users' = users
       ELSE /\ users' = users \cup {[email |-> hs[k].email, pw |-> hs[k].pw]}
            /\ hs' = [hs EXCEPT ![k] =
                        Done(hs[k], Response(201, "",
                               [accessToken |-> generateAccessToken(hs[k].email, now),
                                refreshToken |-> generateRefreshToken(hs[k].email, now),
                                email |-> hs[k].email]))]
    /\ UNCHANGED <<now, ls, state, effectPending, refreshPromise, refreshNet, nRefresh,
                   lastEvent, lastIssued, trigger, calls, req, boot>>

\* POST /api/auth/login arrives and passes validate
LoginArrive(k, email, pw) ==
    /\ hs[k].pc = "idle"
    /\ hs' = [hs EXCEPT ![k] = [IdleHandler EXCEPT !.op = "login", !.pc = "start",
                                                   !.email = email, !.pw = pw]]
    /\ UNCHANGED <<now, ls, state, effectPending, refreshPromise, refreshNet, nRefresh,
                   lastEvent, lastIssued, trigger, calls, req, boot, users>>

\* login: await userService.findByEmail(request.email)
LoginFind(k) ==
    /\ hs[k].op = "login" /\ hs[k].pc = "start"
    /\ hs' = [hs EXCEPT ![k] =
                IF hs[k].email \notin Emails(users)
                THEN Done(hs[k], AuthLogin(hs[k].email, FALSE, FALSE, now))
                ELSE [hs[k] EXCEPT !.pc = "verify", !.hash = HashOf(users, hs[k].email)]]
    /\ UNCHANGED <<now, ls, state, effectPending, refreshPromise, refreshNet, nRefresh,
                   lastEvent, lastIssued, trigger, calls, req, boot, users>>

\* login: await userService.verifyPassword, then the pair is issued and sent
LoginVerify(k) ==
    /\ hs[k].op = "login" /\ hs[k].pc = "verify"
    /\ hs' = [hs EXCEPT ![k] =
                Done(hs[k], AuthLogin(hs[k].email, TRUE, hs[k].pw = hs[k].hash, now))]
    /\ UNCHANGED <<now, ls, state, effectPending, refreshPromise, refreshNet, nRefresh,
                   lastEvent, lastIssued, trigger, calls, req, boot, users>>

\* POST /api/auth/refresh arrives with a refreshToken that is not empty: a
\* string that is no credential, or a credential this server has issued (to
\* a registered user, not after the present)
RefreshArrive(k, tok) ==
    /\ hs[k].pc = "idle"
    /\ tok.sig = "ok" => (tok.sub \in Emails(users) /\ tok.iat <= now)
    /\ hs' = [hs EXCEPT ![k] = [IdleHandler EXCEPT !.op = "refresh", !.pc = "start",
                                                   !.tok = tok]]
    /\ UNCHANGED <<now, ls, state, effectPending, refreshPromise, refreshNet, nRefresh,
                   lastEvent, lastIssued, trigger, calls, req, boot, users>>

\* refresh: jwtService.validateToken(request.refreshToken)
RefreshValidate(k) ==
    /\ hs[k].op = "refresh" /\ hs[k].pc = "start"
    /\ hs' = [hs EXCEPT ![k] =
                IF ~validateToken(hs[k].tok, now)
                THEN Done([hs[k] EXCEPT !.t1 = now],
                          AuthRefreshAt(hs[k].tok, now, now, Emails(users)))
                ELSE [hs[k] EXCEPT !.pc = "decode", !.t1 = now]]
    /\ UNCHANGED <<now, ls, state, effectPending, refreshPromise, refreshNet, nRefresh,
                   lastEvent, lastIssued, trigger, calls, req, boot, users>>

\* mutation: a refresh credential that has been answered with a pair is
\* turned away when it is presented again
RefreshIssueOnce(k) ==
    /\ hs[k].op = "refresh" /\ hs[k].pc = "decode"
    /\ hs' = [hs EXCEPT ![k] =
                Done(hs[k],
                     IF \E j \in Handlers \ {k} :
                          /\ hs[j].pc = "done" /\ hs[j].tok = hs[k].tok
                          /\ hs[j].resp.status = 200
                     THEN errorHandler(UnauthorizedError("Invalid or expired refresh token"))
                     ELSE AuthRefreshAt(hs[k].tok, hs[k].t1, now, Emails(users)))]
    /\ UNCHANGED <<now, ls, state, effectPending, refreshPromise, refreshNet, nRefresh,
                   lastEvent, lastIssued, trigger, calls, req, boot, users>>

\* refresh: getEmailFromToken, findByEmail, then the new pair is issued and
\* sent
RefreshIssue(k) ==
    /\ hs[k].op = "refresh" /\ hs[k].pc = "decode"
    /\ hs' = [hs EXCEPT ![k] =
                Done(hs[k], AuthRefreshAt(hs[k].tok, hs[k].t1, now, Emails(users)))]
    /\ UNCHANGED <<now, ls, state, effectPending, refreshPromise, refreshNet, nRefresh,
                   lastEvent, lastIssued, trigger, calls, req, boot, users>>

\* the response has been sent
AuthRespond(k) ==
    /\ hs[k].pc = "done"
    /\ hs' = [hs EXCEPT ![k] = IdleHandler]
    /\ UNCHANGED <<now, ls, state, effectPending, refreshPromise, refreshNet, nRefresh,
                   lastEvent, lastIssued, trigger, calls, req, boot, users>>

AuthNext ==
    \/ \E k \in Handlers, email \in Subjects, pw \in Passwords : RegisterArrive(k, email, pw)
    \/ \E k \in Handlers : RegisterExists(k)
    \/ \E k \in Handlers : RegisterCreate(k)
    \/ \E k \in Handlers, email \in Subjects, pw \in Passwords : LoginArrive(k, email, pw)
    \/ \E k \in Handlers : LoginFind(k)
    \/ \E k \in Handlers : LoginVerify(k)
    \/ \E k \in Handlers, tok \in Presented \ {Null} : RefreshArrive(k, tok)
    \/ \E k \in Handlers : RefreshValidate(k)
    \/ \E k \in Handlers : RefreshIssue(k)
    \/ \E k \in Handlers : AuthRespond(k)
    \/ Tick

AuthSpec == Init /\ [][AuthNext]_vars

(* ------------------------------ claims -------------------------------- *)

\* call i leaves the state "served" or "sent" in this step
Leaves(i) == calls[i].pc \in {"sent", "served"} /\ calls'[i] # calls[i]

\* the attempts that complete in this step
Completed == {r \in refreshNet : \A q \in refreshNet' : q.id # r.id}

\* C1 (as claimed): calls sent with the same expired access credential cause
\* one POST /api/auth/refresh in total: once the gate's rejection of a
\* credential has started a refresh attempt, no later rejection of that same
\* credential starts another one.
C1_OneRefreshPerCredential ==
    [][\A i \in Calls :
         (/\ calls[i].pc = "served"
          /\ calls[i].url = "protected"
          /\ calls[i].resp.message = GateRejected
          /\ trigger # NoHeader
          /\ calls[i].hdr = trigger)
         => nRefresh' = nRefresh]_vars

\* C2: at most one POST /api/auth/refresh is in flight in every reachable
\* state.
C2_SingleFlight == Cardinality(refreshNet) <= 1

\* C2 witness: a second 401 handler has joined the attempt in flight.
C2_Witness ==
    /\ Cardinality(refreshNet) = 1
    /\ \E i, j \in Calls :
         /\ i # j
         /\ calls[i].pc = "waiting" /\ calls[j].pc = "waiting"
         /\ calls[i].att = refreshPromise /\ calls[j].att = refreshPromise

\* C3: when the refresh endpoint rejects the refresh call, every call that
\* awaits the attempt fails with the session-expired error without sending
\* again, localStorage holds neither credential and isAuthenticated is false.
C3_RejectedRefreshIsTerminal ==
    [][\A r \in Completed :
         (r.st = "served" /\ ~Ok(r.resp.status))
         => /\ ls'.accessToken = Null
            /\ ls'.refreshToken = Null
            /\ ~state'.isAuthenticated
            /\ \A i \in Calls :
                 (calls[i].pc = "waiting" /\ calls[i].att = r.id)
                 => /\ calls'[i].pc = "failed"
                    /\ calls'[i].err = SessionExpired
                    /\ calls'[i].sends = calls[i].sends]_vars

\* C3 witness: the endpoint rejected the attempt and a waiting call failed.
C3_Witness ==
    /\ lastEvent = "refresh_rejected"
    /\ ls.accessToken = Null
    /\ \E i \in Calls :
         calls[i].pc = "failed" /\ calls[i].err = SessionExpired /\ calls[i].waits = 1

\* C4: a call sends at most two requests and awaits at most one refresh
\* attempt; a replayed request that is answered with an error, a 401
\* included, ends the call with that error and starts no refresh.
C4_AtMostOneReplay ==
    [][\A i \in Calls :
         /\ calls'[i].sends <= 2
         /\ calls'[i].waits <= 1
         /\ (calls[i].sends = 2 /\ calls[i].pc = "served"
               /\ ~Ok(calls[i].resp.status) /\ calls'[i] # calls[i])
            => /\ calls'[i].pc = "failed"
               /\ calls'[i].err \in {calls[i].resp.message} \cup NetworkErrors
               /\ refreshNet' = refreshNet
               /\ nRefresh' = nRefresh]_vars

\* C4 witness: the replay of a call was rejected by the gate and the call
\* failed with that rejection.
C4_Witness ==
    \E i \in Calls :
      calls[i].pc = "failed" /\ calls[i].sends = 2 /\ calls[i].err = GateRejected

\* C5: a rejection of the login call is surfaced with its message and starts
\* no refresh attempt, and the step in which a refresh attempt fails starts
\* no refresh attempt either.
C5_AuthEndpointsNeverRefresh ==
    [][/\ \A i \in Calls :
            (calls[i].url = "login" /\ calls[i].pc = "served"
               /\ ~Ok(calls[i].resp.status) /\ calls'[i] # calls[i])
            => /\ calls'[i].pc = "failed"
               /\ calls'[i].err \in {calls[i].resp.message} \cup NetworkErrors
               /\ refreshNet' = refreshNet
               /\ nRefresh' = nRefresh
       /\ Completed # {} => (nRefresh' = nRefresh /\ refreshNet' \subseteq refreshNet)
      ]_vars

\* C5 witness: a login was rejected with 401 while a refresh credential was
\* stored.
C5_Witness ==
    /\ ls.refreshToken # Null
    /\ nRefresh = 0
    /\ \E i \in Calls :
         calls[i].pc = "failed" /\ calls[i].err = "Invalid email or password"

\* C6: while the last write of the stored pair is a successful refresh, every
\* request sent (a replay or a new call) carries the access credential that
\* refresh returned, before and after the [state] effect has run.
C6_NextCallUsesNewCredential ==
    [][\A i \in Calls :
         (calls'[i].sends > calls[i].sends /\ lastEvent' = "refresh")
         => calls'[i].hdr = Bearer(lastIssued')]_vars

\* C6 witness: after a refresh and after the effect ran, a new call was sent
\* with the refreshed credential, which is not the one stored before.
C6_Witness ==
    /\ lastEvent = "refresh"
    /\ ~effectPending
    /\ lastIssued # StoredSession.accessToken
    /\ \E i \in Calls :
         calls[i].pc = "sent" /\ calls[i].sends = 1 /\ calls[i].hdr = Bearer(lastIssued)

\* C7 (as claimed): a 401 that a handler returns for its own reason, "Current
\* password is incorrect", starts no refresh attempt, joins none and is not
\* replayed: the call ends with that message.
C7_OnlyGateRejectionsRefresh ==
    [][\A i \in Calls :
         (calls[i].pc = "served" /\ calls[i].resp.status = 401
            /\ calls[i].resp.message = "Current password is incorrect"
            /\ calls'[i] # calls[i])
         => /\ calls'[i].pc = "failed"
            /\ nRefresh' = nRefresh]_vars

\* C8: a call whose fetch fails before a response (timeout, abort, network)
\* ends with that failure, and no call that ends with a network failure
\* starts or joins a refresh attempt or changes the stored session.
C8_NetworkFailureNeverRefreshes ==
    [][\A i \in Calls :
         /\ (calls[i].pc = "sent" /\ calls'[i].pc # "sent" /\ calls'[i].pc # "served")
            => (calls'[i].pc = "failed" /\ calls'[i].err \in NetworkErrors)
         /\ (Leaves(i) /\ calls'[i].pc = "failed" /\ calls'[i].err \in NetworkErrors)
            => /\ calls'[i].waits = calls[i].waits
               /\ refreshNet' = refreshNet
               /\ refreshPromise' = refreshPromise
               /\ nRefresh' = nRefresh
               /\ ls' = ls
               /\ state' = state]_vars

\* C8 witness: a call timed out while the user was signed in.
C8_Witness ==
    /\ state.isAuthenticated
    /\ \E i \in Calls :
         calls[i].pc = "failed" /\ calls[i].err = "Timeout" /\ calls[i].waits = 0

\* C9: the abort or timeout of one call changes no other call and leaves the
\* refresh call in flight and refreshPromise as they are, and when the
\* attempt succeeds every waiter that was not aborted replays its request
\* with the new credential.
C9_AbortIsLocal ==
    [][/\ \A i \in Calls :
            (\/ (calls'[i].aborted /\ ~calls[i].aborted)
             \/ (Leaves(i) /\ calls'[i].pc = "failed"
                   /\ calls'[i].err \in NetworkErrors))
            => /\ refreshNet' = refreshNet
               /\ refreshPromise' = refreshPromise
               /\ \A j \in Calls \ {i} : calls'[j] = calls[j]
       /\ \A r \in Completed :
            (r.st = "served" /\ Ok(r.resp.status) /\ lastEvent' = "refresh")
            => \A j \in Calls :
                 (calls[j].pc = "waiting" /\ calls[j].att = r.id /\ ~calls[j].aborted)
                 => /\ calls'[j].pc = "sent"
                    /\ calls'[j].hdr = Bearer(r.resp.data.accessToken)
      ]_vars

\* C9 witness: one waiter was aborted during the refresh and failed, another
\* waiter of the same attempt replayed its request.
C9_Witness ==
    \E i, j \in Calls :
      /\ calls[i].pc = "failed" /\ calls[i].err = "AbortError"
      /\ calls[i].waits = 1 /\ calls[i].sends = 1
      /\ calls[j].pc = "sent" /\ calls[j].sends = 2

\* C10: on a protected path the handler runs only for a request whose
\* credential has a good signature and had not expired when the gate
\* validated it, with req.user.email the subject of that credential; every
\* request the gate turns away is answered 401.
C10_GateBeforeHandler ==
    /\ (req.stage = "handler" /\ req.path \in ProtectedPaths)
       => /\ req.hdr.scheme # "absent"
          /\ req.hdr.tok.sig = "ok"
          /\ req.t1 < req.hdr.tok.exp
          /\ req.user = req.hdr.tok.sub
    /\ req.stage = "rejected" => req.status = 401

\* C10 witness: a protected handler runs for the second subject.
C10_Witness ==
    /\ req.stage = "handler"
    /\ req.path = "/api/commutes"
    /\ req.user = "c@d.com"

\* C10 witness of the rejections: an expired credential was turned away.
C10_WitnessRejected ==
    /\ req.stage = "rejected"
    /\ req.hdr.tok.sig = "ok"
    /\ req.hdr.tok.exp <= req.t1

\* C13 (as claimed): whenever the server listens, whatever JWT_ACCESS_EXP_MIN
\* and JWT_REFRESH_EXP_DAYS it was started with, the lifetime of an access
\* credential is strictly shorter than the lifetime of a refresh credential.
C13_AccessShorterThanRefresh ==
    boot.phase = "listening"
    => boot.accessMin < boot.refreshDays * MinutesPerDay

C11_RejectionsDistinguishable ==
    (req.stage = "rejected" /\ req.hdr.scheme = "Bearer" /\ req.hdr.tok.sig = "ok")
    => /\ req.status = 401
       /\ req.message #
            errorHandler(authenticateToken(Bearer(Garbage), req.t1, req.t1).err).message
       /\ req.message #
            errorHandler(authenticateToken(NoHeader, req.t1, req.t1).err).message

C15_LoginOnlyWithMatchingSecret ==
    [][\A k \in Handlers :
         (hs[k].op = "login" /\ hs[k].pc # "done" /\ hs'[k].pc = "done")
         => IF /\ hs[k].email \in Emails(users)
               /\ hs[k].pw = HashOf(users, hs[k].email)
            THEN hs'[k].resp =
                   Response(200, "",
                            [accessToken |-> generateAccessToken(hs[k].email, now),
                             refreshToken |-> generateRefreshToken(hs[k].email, now),
                             email |-> hs[k].email])
            ELSE hs'[k].resp = Response(401, "Invalid email or password", NoData)]_vars

\* C15 witness: a login for an unknown e-mail and a login with a wrong
\* password for a registered e-mail have both been answered, with equal
\* responses.
C15_Witness ==
    \E k, j \in Handlers :
      /\ hs[k].op = "login" /\ hs[k].pc = "done"
      /\ hs[k].email \notin Emails(users)
      /\ hs[j].op = "login" /\ hs[j].pc = "done"
      /\ hs[j].email \in Emails(users)
      /\ hs[j].pw # HashOf(users, hs[j].email)
      /\ hs[k].resp = hs[j].resp
      /\ hs[k].resp.status = 401

C17_RefreshTwoOutcomes ==
    [][\A k \in Handlers :
         (hs[k].op = "refresh" /\ hs[k].pc # "done" /\ hs'[k].pc = "done")
         => LET r == hs'[k].resp IN
            /\ \/ /\ r.status = 200
                  /\ r.data.email = hs[k].tok.sub
                  /\ r.data.accessToken.sub = hs[k].tok.sub
                  /\ r.data.refreshToken.sub = hs[k].tok.sub
                  /\ authenticateToken(Bearer(r.data.accessToken), now, now)
                       = GatePass(hs[k].tok.sub)
               \/ r.status = 401 /\ r.data = NoData
            /\ hs[k].pc = "decode" => r.status = 200]_vars

\* a credential that generateRefreshToken issues
IsRefreshCredential(tok) ==
    \E sub \in Subjects, iat \in Time : tok = generateRefreshToken(sub, iat)

\* C18 (as claimed): no protected handler runs for a request whose Bearer
\* credential is a refresh credential; such a request is answered 401.
C18_RefreshCredentialNeverAuthorizes ==
    (req.path \in ProtectedPaths /\ req.stage \in {"handler", "handled"})
    => ~IsRefreshCredential(req.hdr.tok)

\* C19 (as claimed): a protected handler runs only for a request whose
\* Authorization header has the scheme word Bearer; the bare credential and a
\* credential behind another scheme word are answered 401.
C19_OnlyBearerScheme ==
    (req.path \in ProtectedPaths /\ req.stage \in {"handler", "handled"})
    => req.hdr.scheme = "Bearer"

\* C20 (as claimed): the user whose rows a protected handler reads or writes
\* is the subject of the verified credential, whatever user_email the
\* request carries.
C20_ActsForTokenSubject ==
    (req.stage = "handled" /\ req.acting # "")
    => req.acting = req.hdr.tok.sub

\* C21 (as claimed): the session goes from absent (no credential in
\* localStorage, isAuthenticated false) to present only in the step in which
\* a login or register call returns; after a logout or a failed refresh it
\* stays absent until then, a refresh attempt that was in flight at the
\* logout and completes afterwards included.
C21_SessionOnlyFromLogin ==
    [][(/\ ls.accessToken = Null /\ ls.refreshToken = Null
        /\ ~state.isAuthenticated
        /\ \/ ls'.accessToken # Null
           \/ ls'.refreshToken # Null
           \/ state'.isAuthenticated)
       => \E i \in Calls :
            /\ calls[i].url = "login" /\ calls[i].pc = "served"
            /\ calls'[i].pc = "ok"]_vars

\* the last write of the stored pair was a failed refresh attempt
SessionLost == lastEvent \in {"refresh_rejected", "refresh_thrown"}

\* C22: while the last write of the stored pair is a failed refresh, a
\* protected call that starts is sent without an Authorization header; a
\* protected request without the header is answered 401 'Authentication
\* required'; and when that answer arrives the call fails with the
\* session-expired error and no request goes to the refresh endpoint.
C22_AfterLossMissingCredential ==
    [][\A i \in Calls :
         /\ (calls[i].pc = "idle" /\ calls'[i].pc = "sent"
               /\ calls'[i].url # "login" /\ SessionLost)
            => calls'[i].hdr = NoHeader
         /\ (calls[i].pc = "sent" /\ calls'[i].pc = "served"
               /\ calls[i].url # "login" /\ calls[i].hdr = NoHeader)
            => calls'[i].resp = Response(401, "Authentication required", NoData)
         /\ (calls[i].pc = "served" /\ calls[i].hdr = NoHeader
               /\ calls[i].resp.status = 401 /\ calls[i].url # "login"
               /\ SessionLost /\ calls'[i] # calls[i])
            => /\ calls'[i].pc = "failed"
               /\ calls'[i].err \in {SessionExpired} \cup NetworkErrors
               /\ calls'[i].sends = 1
               /\ nRefresh' = nRefresh
               /\ refreshNet' = refreshNet
               /\ refreshPromise' = 0]_vars

\* C22 witness: the only refresh attempt was rejected and its waiter failed;
\* localStorage still holds the e-mail, so neither a logout nor a login came
\* after; the next call went out without a header and was answered 401
\* 'Authentication required'.
C22_Witness ==
    /\ nRefresh = 1
    /\ lastEvent = "refresh_rejected"
    /\ ls.email = ClientUser /\ ls.accessToken = Null
    /\ calls[1].pc = "failed" /\ calls[1].err = SessionExpired /\ calls[1].waits = 1
    /\ calls[2].pc = "served" /\ calls[2].hdr = NoHeader
    /\ calls[2].resp = Response(401, "Authentication required", NoData)

\* C23: a call whose 401 arrives while refreshPromise is set awaits the
\* attempt in flight and sends nothing to the refresh endpoint; when the
\* attempt completes every call awaiting it gets the same outcome: on
\* success the pair the attempt stored, with which each replays its request
\* (a replay under an aborted signal never leaves), on failure the
\* session-expired error for all.
C23_JoinersShareOutcome ==
    [][/\ \A i \in Calls :
            (calls[i].pc = "served" /\ calls'[i].pc = "waiting" /\ refreshPromise # 0)
            => /\ nRefresh' = nRefresh
               /\ refreshNet' = refreshNet
               /\ refreshPromise' = refreshPromise
               /\ calls'[i].att = refreshPromise
               /\ \E r \in refreshNet : r.id = refreshPromise
       /\ \A r \in Completed : \A i \in Calls :
            (calls[i].pc = "waiting" /\ calls[i].att = r.id)
            => IF lastEvent' = "refresh"
               THEN /\ ls'.accessToken = r.resp.data.accessToken
                    /\ ls'.refreshToken = r.resp.data.refreshToken
                    /\ IF calls[i].aborted
                       THEN calls'[i].pc = "failed" /\ calls'[i].err = "AbortError"
                       ELSE /\ calls'[i].pc = "sent"
                            /\ calls'[i].hdr = Bearer(r.resp.data.accessToken)
               ELSE calls'[i].pc = "failed" /\ calls'[i].err = SessionExpired
      ]_vars

\* C23 witness: one attempt was made, both calls awaited it, and both have
\* replayed their requests with the one credential it returned.
C23_Witness ==
    /\ nRefresh = 1
    /\ lastEvent = "refresh"
    /\ \A i \in Calls :
         /\ calls[i].pc = "sent" /\ calls[i].waits = 1 /\ calls[i].sends = 2
         /\ calls[i].hdr = Bearer(lastIssued)

\* C24: a refresh request is answered from the presented credential, the
\* clock and the users table alone: as long as the clock is before the
\* credential's expiry it passes validateToken and is answered 200 with a
\* new pair for its subject, also when the same credential has already been
\* answered with a pair before.
C24_RefreshCredentialReusable ==
    [][\A k \in Handlers :
         (hs[k].op = "refresh" /\ hs[k].tok.sig = "ok" /\ now < hs[k].tok.exp
            /\ hs'[k] # hs[k])
         => /\ hs[k].pc = "start" => hs'[k].pc = "decode"
            /\ hs[k].pc = "decode"
               => hs'[k].resp =
                    Response(200, "",
                             [accessToken |-> generateAccessToken(hs[k].tok.sub, now),
                              refreshToken |-> generateRefreshToken(hs[k].tok.sub, now),
                              email |-> hs[k].tok.sub])]_vars

\* C24 witness: one refresh credential, issued at clock 0, was answered with a
\* pair at clock 0 and, presented again at clock 1, with another pair.
C24_Witness ==
    \E j, k \in Handlers :
      /\ hs[j].op = "refresh" /\ hs[j].pc = "done" /\ hs[j].resp.status = 200
      /\ hs[k].op = "refresh" /\ hs[k].pc = "done" /\ hs[k].resp.status = 200
      /\ hs[j].tok = generateRefreshToken(ClientUser, 0)
      /\ hs[k].tok = hs[j].tok
      /\ hs[j].resp.data.refreshToken.iat = 0
      /\ hs[k].t1 = 1
      /\ hs[k].resp.data.refreshToken.iat = 1

\* C25: the step in which a refresh attempt completes, by a pair, by a
\* rejection or by a throw, sets refreshPromise to null; refreshPromise is
\* set exactly while the attempt it names is in flight; and a 401 that
\* arrives while it is null and a refresh credential is stored starts a new
\* attempt.
C25_MarkerFollowsAttempt ==
    [][/\ Completed # {} => refreshPromise' = 0
       /\ refreshPromise' # 0 <=> (\E r \in refreshNet' : r.id = refreshPromise')
       /\ refreshPromise' = 0 <=> refreshNet' = {}
       /\ \A i \in Calls :
            (calls[i].pc = "served" /\ calls'[i].pc = "waiting" /\ refreshPromise = 0)
            => /\ nRefresh' = nRefresh + 1
               /\ refreshPromise' = nRefresh'
               /\ calls'[i].att = nRefresh'
               /\ refreshNet' = {NewAttempt(nRefresh', ls.refreshToken)}
      ]_vars

\* C25 witness of the failure: after the first attempt completed and the user
\* logged in again, a 401 has started the second attempt.
C25_WitnessLogin ==
    /\ nRefresh = 2
    /\ refreshPromise = 2
    /\ lastEvent = "login"
    /\ \E i \in Calls : calls[i].pc = "waiting" /\ calls[i].att = 2
    /\ \E r \in refreshNet : r.id = 2 /\ r.st = "sent"

\* C25 witness: the first attempt returned a pair and a later 401 has started
\* the second attempt.
C25_Witness ==
    /\ nRefresh = 2
    /\ refreshPromise = 2
    /\ lastEvent = "refresh"
    /\ \E i \in Calls : calls[i].pc = "waiting" /\ calls[i].att = 2

\* C26 (as claimed): the refresh endpoint decides on a presented credential
\* by one clock reading: a credential that validateToken accepted is not
\* found expired later in the same request, and the request is answered as
\* the reading at validateToken decides, with 200 and a pair or with 401,
\* never with another error.
C26_SingleClockReading ==
    [][\A k \in Handlers :
         (hs[k].op = "refresh" /\ hs[k].pc # "done" /\ hs'[k].pc = "done")
         => /\ hs'[k].resp.status \in {200, 401}
            /\ hs'[k].resp.status =
                 AuthRefreshAt(hs[k].tok, hs'[k].t1, hs'[k].t1, Emails(users)).status
            /\ hs[k].pc = "decode" => ~getEmailFromToken(hs[k].tok, now).thrown]_vars

\* the pages call a protected endpoint or log in
PageUrls == {"protected", "login"}

\* the browser and the server as in Next, with the inputs that decide whether
\* a call completes: the url, the login's password, and one cause of a
\* rejected fetch, the call's timer; refresh attempts are started by the
\* calls
PageNext ==
    \/ \E i \in Calls, url \in PageUrls : Start(i, url)
    \/ \E i \in Calls, pwOk \in BOOLEAN : ServerHandle(i, pwOk, TRUE)
    \/ \E i \in Calls : Deliver(i)
    \/ \E i \in Calls : NetworkFail(i, "Timeout")
    \/ \E i \in Calls : AbortWaiting(i)
    \/ \E r \in refreshNet : RefreshServe(r)
    \/ \E r \in refreshNet, thrown \in BOOLEAN : RefreshSettle(r, thrown)
    \/ Logout
    \/ SyncEffect
    \/ Tick

\* a session stored without its refresh credential: readInitialState takes
\* it for a signed-in user whose refreshToken is null
AccessOnlySession == [StoredSession EXCEPT !.refreshToken = Null]

\* what localStorage may hold when the page is mounted
Stores == {EmptyStore, StoredSession, AccessOnlySession}

\* the page is mounted on any of those stores
MountInit ==
    /\ now = 0
    /\ ls \in Stores
    /\ state = readInitialState(ls)
    /\ effectPending = FALSE
    /\ refreshPromise = 0
    /\ refreshNet = {}
    /\ nRefresh = 0
    /\ lastEvent = "init"
    /\ lastIssued = ls.accessToken
    /\ trigger = NoHeader
    /\ calls = [i \in Calls |-> IdleCall]
    /\ req = NoRequest
    /\ ServerInit

MountSpec == MountInit /\ [][PageNext]_vars

\* the browser's event loop and the network are fair: the fetch of a call
\* settles, by a response or by a rejection (its timer is one cause of
\* those), and so does the fetch of a refresh attempt
Fairness ==
    /\ \A i \in Calls :
         WF_vars(\/ \E pwOk \in BOOLEAN : ServerHandle(i, pwOk, TRUE)
                 \/ Deliver(i)
                 \/ NetworkFail(i, "Timeout"))
    /\ WF_vars(\E r \in refreshNet, thrown \in BOOLEAN : RefreshSettle(r, thrown))

\* the browser and the server under that assumption
LiveSpec == Init /\ [][PageNext]_vars /\ Fairness

\* C27: every fetchJSON call that has started eventually returns or throws,
\* whether it is awaiting its fetch, a refresh attempt or its replay.
C27_EveryCallCompletes ==
    \A i \in Calls :
      (calls[i].pc \in {"sent", "served", "waiting"})
        ~> (calls[i].pc \in {"ok", "failed"})

\* C27 witness: both calls have left fetchJSON after awaiting a refresh
\* attempt: the first returned from its replay, the second threw the
\* session-expired error of a later attempt that failed.
C27_Witness ==
    /\ calls[1].pc = "ok" /\ calls[1].sends = 2 /\ calls[1].waits = 1
    /\ calls[2].pc = "failed" /\ calls[2].err = SessionExpired /\ calls[2].waits = 1
    /\ nRefresh = 2

\* C28 (as claimed): in the step in which a call throws the session-expired
\* error, localStorage holds no access credential and isAuthenticated is
\* false, also when the 401 arrived while an access credential but no
\* refresh credential was stored.
C28_ExpiredMeansCleared ==
    [][\A i \in Calls :
         (calls[i].pc # "failed" /\ calls'[i].pc = "failed"
            /\ calls'[i].err = SessionExpired)
         => /\ ls'.accessToken = Null
            /\ ~state'.isAuthenticated]_vars

\* C29: the step in which a refresh attempt fails, by a rejection of the
\* server, by a rejected fetch or by a response that does not parse, removes
\* the access and the refresh credential from localStorage, gives the
\* registered callback an empty pair, on which the React state becomes the
\* unauthenticated one, and fails every call awaiting the attempt with the
\* session-expired error, without a replay and without another attempt.
C29_EveryRefreshFailureIsTerminal ==
    [][\A r \in Completed :
         lastEvent' # "refresh"
         => /\ lastEvent' \in {"refresh_thrown", "refresh_rejected"}
            /\ ls'.accessToken = Null
            /\ ls'.refreshToken = Null
            /\ state' = Unauthenticated
            /\ effectPending'
            /\ refreshNet' = {}
            /\ nRefresh' = nRefresh
            /\ \A i \in Calls :
                 (calls[i].pc = "waiting" /\ calls[i].att = r.id)
                 => /\ calls'[i].pc = "failed"
                    /\ calls'[i].err = SessionExpired
                    /\ calls'[i].sends = calls[i].sends]_vars

\* C29 witness: the fetch of the refresh attempt threw; both calls awaited it
\* and failed with the session-expired error, and the credentials are gone
\* from localStorage before the [state] effect has run.
C29_Witness ==
    /\ lastEvent = "refresh_thrown"
    /\ effectPending
    /\ ls.accessToken = Null /\ ls.refreshToken = Null /\ ls.email = ClientUser
    /\ ~state.isAuthenticated
    /\ \A i \in Calls :
         calls[i].pc = "failed" /\ calls[i].err = SessionExpired /\ calls[i].waits = 1

\* C30 (as claimed): the refresh endpoint answers with a new pair only when
\* the presented credential was issued by generateRefreshToken; an access
\* credential is answered 401 with no credentials.
C30_OnlyRefreshCredentialRefreshes ==
    [][\A k \in Handlers :
         (hs[k].op = "refresh" /\ hs[k].pc # "done" /\ hs'[k].pc = "done"
            /\ ~IsRefreshCredential(hs[k].tok))
         => /\ hs'[k].resp.status = 401
            /\ hs'[k].resp.data = NoData]_vars

====
